---- MODULE Spec2Model ----
(***************************************************************************)
(* Request coordination of TradeApiClient (src/src/services/               *)
(* tradeApiClient.js): request fingerprints (cacheId), the per-fingerprint *)
(* request lock, the running average latency used as cache TTL, the        *)
(* memory-cache response cache and doRequest around them.                  *)
(*                                                                         *)
(* JavaScript runs doRequest on one thread; a call is suspended only at    *)
(* its awaits (fetch, response.json(), resolveFromCache).  Each action     *)
(* below is one run-to-completion segment of the code between two          *)
(* suspension points, or one timer callback.                               *)
(*                                                                         *)
(* Time is kept relative: every timer (the age of a fetch, the time to a   *)
(* waiter's next poll, the remaining life of a cache entry) is advanced by *)
(* Tick in steps of Step milliseconds.  Latency averages halve at every    *)
(* observation, so the latency table and the cache TTL are kept in fixed   *)
(* point, in units of 1/Den millisecond, which is exact for MaxCalls       *)
(* observations.                                                           *)
(***************************************************************************)
EXTENDS Integers, Sequences, FiniteSets, TLC

\* ------------------------------------------------------------------ bounds

\* Number of doRequest invocations in a behaviour.
MaxCalls == 3

\* Largest backend latency, in steps of Step milliseconds.
MaxLatencySteps == 2

\* Longest time an interval callback runs after it is due, in steps of Step
\* milliseconds: the runtime runs a timer callback no earlier than due.
MaxLateSteps == 1

\* ------------------------------------------------------- program constants

\* setRequestAverageLatency: const tolerance = 500
Tolerance == 500

\* getRequestAverageLatency: || 5000
DefaultLatency == 5000

\* resolveFromCache: setInterval(..., 100)
PollInterval == 100

\* doRequest: customError.code === 13
SessionExpiredCode == 13

\* --------------------------------------------------------------- universe

\* Time resolution of the model, in milliseconds.
Step == PollInterval \div 4

MaxLatency == MaxLatencySteps * Step

MaxLate == MaxLateSteps * Step

RECURSIVE Pow2(_)
Pow2(n) == IF n = 0 THEN 1 ELSE 2 * Pow2(n - 1)

\* Fixed-point denominator: a value v of the latency table stands for v/Den ms.
Den == Pow2(MaxCalls)

Units(ms) == ms * Den

CallIds == 1..MaxCalls

\* Values of cacheId (generateRequestCacheId's results) the calls use: every
\* table is keyed by cacheId alone, and the calls of a behaviour share one.
CacheIds == {"a"}

Methods == {"GET", "POST"}

\* HTTP statuses the backend answers with.
Statuses == {200, 201, 500}

\* Shapes of the response body: a plain object, {error: {code: 13}},
\* {error: {code: other}}, and a body that is not JSON.
BodyKinds == {"data", "error13", "errorOther", "unparseable"}

\* ------------------------------------------------------ JavaScript values

\* An object or string as far as doRequest looks at it: its code and error
\* properties (<<>> is undefined, <<x>> is defined as x) and, as a ghost, the
\* call whose network call produced it (tag).
JsObject(code, error, tag) ==
    [kind |-> "object", code |-> code, error |-> error, tag |-> tag]

\* e.message: a non-empty string; its .code and .error are undefined.
JsString(tag) ==
    [kind |-> "string", code |-> <<>>, error |-> <<>>, tag |-> tag]

\* let responseData = {}
EmptyObject == JsObject(<<>>, <<>>, 0)

\* The value response.json() resolves to for a parseable body of call c.
ParsedJson(bodyKind, c) ==
    CASE bodyKind = "data" -> JsObject(<<>>, <<>>, c)
      [] bodyKind = "error13" ->
            JsObject(<<>>, <<JsObject(<<SessionExpiredCode>>, <<>>, c)>>, c)
      [] bodyKind = "errorOther" ->
            JsObject(<<>>, <<JsObject(<<SessionExpiredCode + 1>>, <<>>, c)>>, c)

\* response.status === 200 || response.status === 201
Ok(status) == status = 200 \/ status = 201

\* if (response.status === 200 || response.status === 201) responseData = parsedJson
\* else responseData.error = parsedJson
ResponseData(status, parsedJson, c) ==
    IF status = 200 \/ status = 201
    THEN parsedJson
    ELSE JsObject(<<>>, <<parsedJson>>, c)

\* catch (e) { responseData.error = e.message }
CaughtResponseData(c) == JsObject(<<>>, <<JsString(c)>>, c)

\* Mutant of HasError: only an error object counts, not a message string.
HasErrorObjectOnly(responseData) ==
    responseData.error # <<>> /\ responseData.error[1].kind = "object"

\* if (responseData.error): every error value of the model is truthy.
HasError(responseData) == responseData.error # <<>>

\* Mutant of CustomError: the nested error object is not unwrapped.
CustomErrorOuter(responseData) == responseData.error[1]

\* const customError = responseData.error.error || responseData.error
CustomError(responseData) ==
    LET e == responseData.error[1]
    IN  IF e.error # <<>> THEN e.error[1] ELSE e

\* Mutant of SessionExpired: any error that carries a code counts.
SessionExpiredAnyCode(customError) == customError.code # <<>>

\* if (customError.code === 13)
SessionExpired(customError) == customError.code = <<SessionExpiredCode>>

\* ------------------------------------------------------------------ state

VARIABLES
    requestAverageLatency,  \* this.requestAverageLatency: cacheId -> <<>> or <<units>>
    requestLock,            \* this.requestLock: cacheId -> held?
    cache,                  \* memory-cache: cacheId -> entry
    calls,                  \* the doRequest invocations and where each stands; ok and
                            \* body are ghosts: what the backend answered (ok: with
                            \* status 200 or 201); recorded is a ghost: the call has
                            \* written the latency table
    holder,                 \* ghost: the call that acquired each held lock (0: free)
    navigateLoginCalls,     \* ghost: navigateLogin() invocations made by each call
    token,                  \* this.token: <<>> (undefined) or <<string>>
    requests                \* ghost: what each doRequest invocation was given and the
                            \* request it built from it (<<>>: none yet)

vars == <<requestAverageLatency, requestLock, cache, calls, holder, navigateLoginCalls,
          token, requests>>

\* A doRequest invocation that has not been made yet.
IdleCall ==
    [pc |-> "idle", method |-> "GET", cacheId |-> "a", elapsed |-> 0, pollIn |-> 0,
     ok |-> FALSE, body |-> "none", result |-> EmptyObject, locked |-> FALSE, fetched |-> FALSE,
     recorded |-> FALSE, behind |-> 0]

\* No record in the cache for a key.  long is a ghost: the record was put
\* with a time of at least the poll interval of resolveFromCache.
NoEntry == [present |-> FALSE, value |-> EmptyObject, ttl |-> 0, long |-> FALSE]

\* constructor: requestAverageLatency = {}, requestLock = {}; the cache is empty.
Init ==
    /\ requestAverageLatency = [k \in CacheIds |-> <<>>]
    /\ requestLock = [k \in CacheIds |-> FALSE]
    /\ cache = [k \in CacheIds |-> NoEntry]
    /\ calls = [c \in CallIds |-> IdleCall]
    /\ holder = [k \in CacheIds |-> 0]
    /\ navigateLoginCalls = [c \in CallIds |-> 0]
    /\ token = <<>>
    /\ requests = [c \in CallIds |-> <<>>]

\* ------------------------------------------------- lock and latency tables

\* getRequestLock's result: false when this.requestLock[cacheId] is set.
GetRequestLock(lock, k) == ~lock[k]

\* Mutant of LockAfterGet: the acquired lock is not written to the table.
LockAfterGetForgets(lock, k) == lock

\* getRequestLock's effect on this.requestLock.
LockAfterGet(lock, k) == [lock EXCEPT ![k] = TRUE]

\* releaseRequestLock: delete this.requestLock[cacheId].
ReleaseRequestLock(lock, k) == [lock EXCEPT ![k] = FALSE]

\* if (this.requestAverageLatency[cacheId]): defined and not 0.
HasAverage(table, k) == table[k] # <<>> /\ table[k] # <<0>>

\* setRequestAverageLatency, latency in units: the first observation is stored
\* as it is, a later one as (currentAverage + latency) / 2 + tolerance.
SetRequestAverageLatency(table, k, latency) ==
    IF HasAverage(table, k)
    THEN [table EXCEPT ![k] = <<(table[k][1] + latency) \div 2 + Units(Tolerance)>>]
    ELSE [table EXCEPT ![k] = <<latency>>]

\* Mutant of GetRequestAverageLatency: a recorded 0 is returned as it is.
GetRequestAverageLatencyNoDefault(table, k) ==
    IF table[k] # <<>> THEN table[k][1] ELSE Units(DefaultLatency)

\* getRequestAverageLatency: this.requestAverageLatency[cacheId] || 5000.
GetRequestAverageLatency(table, k) ==
    IF HasAverage(table, k) THEN table[k][1] ELSE Units(DefaultLatency)

\* ------------------------------------------------------------ memory-cache

\* Mutant of CacheGet: a record is no longer served at the instant it expires.
CacheGetStrict(store, k) ==
    IF store[k].present /\ store[k].ttl > 0 THEN <<store[k].value>> ELSE <<>>

\* cache.get(key): the value of a record that has not expired, as <<value>>,
\* or <<>> (null).
CacheGet(store, k) ==
    IF store[k].present /\ store[k].ttl >= 0 THEN <<store[k].value>> ELSE <<>>

\* cache.put(key, value, time): the record expires time milliseconds from now.
CachePut(store, k, value, time) ==
    [store EXCEPT ![k] = [present |-> TRUE, value |-> value, ttl |-> time,
                          long |-> time >= Units(PollInterval)]]

\* The store after ms milliseconds: expiry is lazy, a record is served until
\* its time-to-live is used up and is masked strictly after.
CacheAfter(store, ms) ==
    [k \in CacheIds |->
        IF store[k].present /\ store[k].ttl - Units(ms) >= 0
        THEN [store[k] EXCEPT !.ttl = @ - Units(ms)]
        ELSE NoEntry]

\* ---------------------------------------------------------------- doRequest

\* A call whose network call (fetch or the reading of its body) is under way.
InFlight(c) == calls[c].pc \in {"fetching", "parsing"}

\* A call that has settled its promise.
Settled(c) == calls[c].pc \in {"resolved", "rejected"}

\* Mutant of CacheHit: the cache is not consulted.
CacheHitNever(method, hit) == FALSE

\* if (method === "GET") { cacheResponseData = cache.get(cacheId);
\* if (cacheResponseData) return cacheResponseData
CacheHit(method, hit) == method = "GET" /\ hit # <<>>

\* doRequest(endpointPath, payload, method) with fingerprint k, from the call
\* to its first await or return: a GET returns the cached response, or fails
\* to get the lock and starts polling the cache (resolveFromCache), or gets the
\* lock and issues fetch; any other method issues fetch at once.
DoRequest(c, method, k) ==
    /\ calls[c].pc = "idle"
    /\ IF c = 1 THEN TRUE ELSE calls[c - 1].pc # "idle"
    /\ LET hit == CacheGet(cache, k)
           started == [calls[c] EXCEPT !.method = method, !.cacheId = k]
       IN  IF CacheHit(method, hit)
           THEN /\ calls' = [calls EXCEPT ![c] =
                        [started EXCEPT !.pc = "resolved", !.result = hit[1]]]
                /\ UNCHANGED <<requestLock, holder>>
           ELSE IF method = "GET" /\ ~GetRequestLock(requestLock, k)
           THEN /\ calls' = [calls EXCEPT ![c] =
                        [started EXCEPT !.pc = "waiting", !.pollIn = PollInterval,
                                        !.behind = holder[k]]]
                /\ UNCHANGED <<requestLock, holder>>
           ELSE /\ calls' = [calls EXCEPT ![c] =
                        [started EXCEPT !.pc = "fetching", !.elapsed = 0,
                                        !.fetched = TRUE, !.locked = (method = "GET")]]
                /\ requestLock' = IF method = "GET"
                                  THEN LockAfterGet(requestLock, k)
                                  ELSE requestLock
                /\ holder' = IF method = "GET" THEN [holder EXCEPT ![k] = c] ELSE holder
    /\ UNCHANGED <<requestAverageLatency, cache, navigateLoginCalls, token, requests>>

\* await fetch(...) resolves with a response: the elapsed time is recorded
\* and the call awaits response.json().
FetchResolve(c) ==
    /\ calls[c].pc = "fetching"
    /\ requestAverageLatency' =
           SetRequestAverageLatency(requestAverageLatency, calls[c].cacheId,
                                    Units(calls[c].elapsed))
    /\ calls' = [calls EXCEPT ![c] = [@ EXCEPT !.pc = "parsing", !.elapsed = 0, !.recorded = TRUE]]
    /\ UNCHANGED <<requestLock, cache, holder, navigateLoginCalls, token, requests>>

\* The rest of doRequest once responseData is known: a response with an error
\* is thrown (after navigateLogin() for code 13), any other is returned.
Settle(c, responseData, status, bodyKind) ==
    IF HasError(responseData)
    THEN /\ calls' = [calls EXCEPT ![c] =
                [@ EXCEPT !.pc = "rejected", !.result = CustomError(responseData),
                          !.elapsed = 0, !.ok = Ok(status), !.body = bodyKind]]
         /\ navigateLoginCalls' =
                IF SessionExpired(CustomError(responseData))
                THEN [navigateLoginCalls EXCEPT ![c] = @ + 1]
                ELSE navigateLoginCalls
    ELSE /\ calls' = [calls EXCEPT ![c] =
                [@ EXCEPT !.pc = "resolved", !.result = responseData,
                          !.elapsed = 0, !.ok = Ok(status), !.body = bodyKind]]
         /\ UNCHANGED navigateLoginCalls

\* Mutant of FetchReject: the lock is released when fetch throws.
FetchRejectReleases(c) ==
    /\ calls[c].pc = "fetching"
    /\ Settle(c, CaughtResponseData(c), 0, "throws")
    /\ requestLock' = IF calls[c].locked
                      THEN ReleaseRequestLock(requestLock, calls[c].cacheId)
                      ELSE requestLock
    /\ UNCHANGED <<requestAverageLatency, cache, holder, token, requests>>

\* await fetch(...) throws (transport failure): the catch block sets
\* responseData.error and the error is thrown; nothing else runs.
FetchReject(c) ==
    /\ calls[c].pc = "fetching"
    /\ Settle(c, CaughtResponseData(c), 0, "throws")
    /\ UNCHANGED <<requestAverageLatency, requestLock, cache, holder, token, requests>>

\* Mutant of StoresResponse: every method stores its response and releases.
StoresResponseAnyMethod(method, responseData) == TRUE

\* Mutant of StoresResponse: only a response without error is stored.
StoresResponseOnlyOk(method, responseData) ==
    method = "GET" /\ ~HasError(responseData)

\* Whether a GET stores its response: cache.put is reached for every response
\* whose body parsed.
StoresResponse(method, responseData) == method = "GET"

\* await response.json() settles, for a response of the given status and
\* body (nothing reads either before this point).  A body that does not parse
\* throws into the catch block.  Otherwise responseData is set from the status,
\* a GET puts it in the cache with the average latency as TTL and releases the
\* lock, and the call settles.
ParseBody(c, status, bodyKind) ==
    /\ calls[c].pc = "parsing"
    /\ LET k == calls[c].cacheId IN
       IF bodyKind = "unparseable"
       THEN /\ Settle(c, CaughtResponseData(c), status, bodyKind)
            /\ UNCHANGED <<requestLock, cache, holder>>
       ELSE LET responseData ==
                    ResponseData(status, ParsedJson(bodyKind, c), c)
            IN  /\ IF StoresResponse(calls[c].method, responseData)
                   THEN /\ cache' = CachePut(cache, k, responseData,
                                GetRequestAverageLatency(requestAverageLatency, k))
                        /\ requestLock' = ReleaseRequestLock(requestLock, k)
                        /\ holder' = [holder EXCEPT ![k] = 0]
                   ELSE UNCHANGED <<requestLock, cache, holder>>
                /\ Settle(c, responseData, status, bodyKind)
    /\ UNCHANGED <<requestAverageLatency, token, requests>>

\* Mutant of Poll: a poll that finds nothing rejects with tooManyRequestsError
\* (the timeout that resolveFromCache has commented out).
PollWithTimeout(c) ==
    /\ calls[c].pc = "waiting"
    /\ calls[c].pollIn <= 0
    /\ LET hit == CacheGet(cache, calls[c].cacheId)
       IN  calls' = [calls EXCEPT ![c] =
               IF hit # <<>>
               THEN [@ EXCEPT !.pc = "resolved", !.result = hit[1]]
               ELSE [@ EXCEPT !.pc = "rejected", !.result = JsString(c)]]
    /\ UNCHANGED <<requestAverageLatency, requestLock, cache, holder, navigateLoginCalls,
                   token, requests>>

\* resolveFromCache's interval callback, run when due or up to MaxLate later:
\* a cached response resolves the promise and doRequest returns it; otherwise
\* the next poll is due 100 ms after this one ran.
Poll(c) ==
    /\ calls[c].pc = "waiting"
    /\ calls[c].pollIn <= 0
    /\ LET hit == CacheGet(cache, calls[c].cacheId)
       IN  calls' = [calls EXCEPT ![c] =
               IF hit # <<>>
               THEN [@ EXCEPT !.pc = "resolved", !.result = hit[1]]
               ELSE [@ EXCEPT !.pollIn = PollInterval]]
    /\ UNCHANGED <<requestAverageLatency, requestLock, cache, holder, navigateLoginCalls,
                   token, requests>>

\* Step milliseconds pass.  A due poll may be passed over until it is MaxLate
\* late, and the backend answers a fetch within limit milliseconds; the body
\* of a response may take any time to arrive.  Date.now() - startTime is the
\* time a fetch took.
TickWithin(limit) ==
    /\ \A c \in CallIds : calls[c].pc = "waiting" => calls[c].pollIn - Step >= -MaxLate
    /\ \A c \in CallIds : calls[c].pc = "fetching" => calls[c].elapsed + Step <= limit
    /\ calls' = [c \in CallIds |->
           CASE calls[c].pc = "waiting" -> [calls[c] EXCEPT !.pollIn = @ - Step]
             [] calls[c].pc = "fetching" -> [calls[c] EXCEPT !.elapsed = @ + Step]
             [] OTHER -> calls[c]]
    /\ cache' = CacheAfter(cache, Step)
    /\ UNCHANGED <<requestAverageLatency, requestLock, holder, navigateLoginCalls,
                   token, requests>>

\* Time passes with a backend that answers within MaxLatency.
Tick == TickWithin(MaxLatency)

\* The caller's continuation takes the settled promise, in the microtask that
\* follows the settlement: the invocation is over.
Return(c) ==
    /\ Settled(c)
    /\ calls' = [calls EXCEPT ![c] = [IdleCall EXCEPT !.pc = "done"]]
    /\ navigateLoginCalls' = [navigateLoginCalls EXCEPT ![c] = 0]
    /\ UNCHANGED <<requestAverageLatency, requestLock, cache, holder, token, requests>>

\* Promise reactions run before any other task.
NoneSettled == \A c \in CallIds : ~Settled(c)

\* The backend of these specifications takes at least Step to answer a fetch
\* with a response (a fetch may fail at once).
Answers(c) == calls[c].elapsed >= Step

Next ==
    \/ \E c \in CallIds : Return(c)
    \/ \E c \in CallIds, method \in Methods, k \in CacheIds :
           NoneSettled /\ DoRequest(c, method, k)
    \/ \E c \in CallIds : NoneSettled /\ Answers(c) /\ FetchResolve(c)
    \/ \E c \in CallIds : NoneSettled /\ FetchReject(c)
    \/ \E c \in CallIds, status \in Statuses, bodyKind \in BodyKinds :
           NoneSettled /\ ParseBody(c, status, bodyKind)
    \/ \E c \in CallIds : NoneSettled /\ Poll(c)
    \/ NoneSettled /\ Tick

Spec == Init /\ [][Next]_vars

\* Time passes, due timer callbacks run, the backend answers every fetch (with
\* a response or a failure), bodies are read and promise reactions run.  No
\* caller is obliged to call doRequest.
Fairness ==
    /\ WF_vars(NoneSettled /\ Tick)
    /\ WF_vars(\E c \in CallIds : Return(c))
    /\ WF_vars(\E c \in CallIds : NoneSettled /\ Poll(c))
    /\ WF_vars(\E c \in CallIds :
                  NoneSettled /\ ((Answers(c) /\ FetchResolve(c)) \/ FetchReject(c)))
    /\ WF_vars(\E c \in CallIds, status \in Statuses, bodyKind \in BodyKinds :
                  NoneSettled /\ ParseBody(c, status, bodyKind))

FairSpec == Spec /\ Fairness

\* ----------------------------------------------- scenario: two identical GETs

\* GET doRequest calls with one fingerprint, made at any time, and a backend
\* that answers every one of them 200 with a plain body, after any latency
\* from Step to MaxLatency.  The callers keep their settled promises.
DedupNext ==
    \/ \E c \in CallIds : DoRequest(c, "GET", "a")
    \/ \E c \in CallIds : Answers(c) /\ FetchResolve(c)
    \/ \E c \in CallIds : ParseBody(c, 200, "data")
    \/ \E c \in CallIds : Poll(c)
    \/ Tick

\* Time passes, due polls run, the backend answers and bodies are read.  No
\* caller is obliged to call doRequest.
DedupFairness ==
    /\ WF_vars(Tick)
    /\ WF_vars(\E c \in CallIds : Answers(c) /\ FetchResolve(c))
    /\ WF_vars(\E c \in CallIds : ParseBody(c, 200, "data"))
    /\ WF_vars(\E c \in CallIds : Poll(c))

DedupSpec == Init /\ [][DedupNext]_vars /\ DedupFairness

\* ------------------------------------------- scenario: the latency table alone

\* Latencies Date.now() - startTime can measure: whole milliseconds from 0.
LatencySamples == {0, 1} \cup {n * Step : n \in 0..MaxLatencySteps}

\* A POST doRequest whose fetch was issued `latency` milliseconds ago (a POST
\* takes no lock, so any number of them are in flight together).
PostInFlight(latency) ==
    [IdleCall EXCEPT !.pc = "fetching", !.method = "POST", !.fetched = TRUE,
                     !.elapsed = latency]

\* A fresh client with one POST per call id in flight, of any ages.
LatencyInit ==
    /\ requestAverageLatency = [k \in CacheIds |-> <<>>]
    /\ requestLock = [k \in CacheIds |-> FALSE]
    /\ cache = [k \in CacheIds |-> NoEntry]
    /\ calls \in [CallIds -> {PostInFlight(latency) : latency \in LatencySamples}]
    /\ holder = [k \in CacheIds |-> 0]
    /\ navigateLoginCalls = [c \in CallIds |-> 0]
    /\ token = <<>>
    /\ requests = [c \in CallIds |-> <<>>]

\* fetch resolves and setRequestAverageLatency(cacheId, elapsedTime) runs;
\* elapsedTime stays with the call.
RecordLatency(c) ==
    /\ calls[c].pc = "fetching"
    /\ requestAverageLatency' =
           SetRequestAverageLatency(requestAverageLatency, calls[c].cacheId,
                                    Units(calls[c].elapsed))
    /\ calls' = [calls EXCEPT ![c] = [@ EXCEPT !.pc = "parsing", !.recorded = TRUE]]
    /\ UNCHANGED <<requestLock, cache, holder, navigateLoginCalls, token, requests>>

\* The fetches resolve in the order of the call ids: observation n of the
\* fingerprint is the latency of call n.
LatencyNext ==
    \E c \in CallIds :
        /\ IF c = 1 THEN TRUE ELSE calls[c - 1].pc = "parsing"
        /\ RecordLatency(c)

LatencySpec == LatencyInit /\ [][LatencyNext]_vars

\* ------------------------------------- scenario: the request doRequest builds

\* The doRequest invocations whose requests are built and compared.
RequestIds == {1, 2}

EndpointPaths == {"/a", "/b"}

\* Values of this.token and of the token argument: undefined, the empty
\* string, and two tokens.
HeldTokens == {<<>>, <<"">>, <<"t1">>}
TokenArguments == {<<>>, <<"t2">>}

PayloadKeys == {"x", "y"}
PayloadValues == {"1", "2"}

\* The entries of an object in insertion order: <<key, value>> pairs with
\* distinct keys.
ObjectEntries ==
    {<<>>}
    \cup {<<<<k, v>>>> : k \in PayloadKeys, v \in PayloadValues}
    \cup {e \in {<<<<k1, v1>>, <<k2, v2>>>> :
                     k1 \in PayloadKeys, k2 \in PayloadKeys,
                     v1 \in PayloadValues, v2 \in PayloadValues} :
              e[1][1] # e[2][1]}

\* The payload argument: <<>> (undefined) or <<entries>> (an object).
Payloads == {<<>>} \cup {<<entries>> : entries \in ObjectEntries}

\* JavaScript truthiness of an optional string.
Truthy(v) == v # <<>> /\ v # <<"">>

\* Mutant of AuthToken: the token argument is ignored.
AuthTokenHeldOnly(thisToken, tokenArg) == thisToken

\* Mutant of AuthToken: the token argument comes first.
AuthTokenArgFirst(thisToken, tokenArg) ==
    IF Truthy(tokenArg) THEN tokenArg ELSE thisToken

\* const authToken = this.token || token
AuthToken(thisToken, tokenArg) == IF Truthy(thisToken) THEN thisToken ELSE tokenArg

\* ...(authToken && { Authorization: "Bearer " + authToken }): the value of
\* the Authorization header, <<>> when the header is not set.
Authorization(authToken) ==
    IF Truthy(authToken) THEN <<"Bearer ", authToken[1]>> ELSE <<>>

\* String(new URLSearchParams(payload)): key=value joined by & in insertion
\* order.  Strings are sequences of their pieces.
RECURSIVE UrlSearchParams(_)
UrlSearchParams(entries) ==
    IF entries = <<>> THEN <<>>
    ELSE <<entries[1][1], "=", entries[1][2]>>
         \o (IF Len(entries) = 1 THEN <<>>
             ELSE <<"&">> \o UrlSearchParams(Tail(entries)))

\* The members of JSON.stringify(object): "key":"value" joined by commas in
\* insertion order.
RECURSIVE JsonMembers(_)
JsonMembers(entries) ==
    IF entries = <<>> THEN <<>>
    ELSE <<"\"", entries[1][1], "\":\"", entries[1][2], "\"">>
         \o (IF Len(entries) = 1 THEN <<>>
             ELSE <<",">> \o JsonMembers(Tail(entries)))

\* JSON.stringify(payload): <<>> (undefined) for undefined, else <<string>>.
JsonStringify(payload) ==
    IF payload = <<>> THEN <<>>
    ELSE <<(<<"{">> \o JsonMembers(payload[1]) \o <<"}">>)>>

\* requestUrl: baseUrl + endpointPath, and for a GET with a payload
\* ?${new URLSearchParams(payload)}.
RequestUrl(endpointPath, payload, method) ==
    <<"baseUrlv1", endpointPath>>
    \o (IF method = "GET" /\ payload # <<>>
        THEN <<"?">> \o UrlSearchParams(payload[1])
        ELSE <<>>)

\* options.body: null for a GET, JSON.stringify(payload) otherwise.
OptionsBody(payload, method) ==
    IF method = "GET" THEN <<>> ELSE JsonStringify(payload)

\* createHash("md5").update(payload).digest("hex"): one digest per string.
Md5(string) == [md5 |-> string]

\* generateRequestCacheId: `${endpointPath}-${payloadHash}`.
GenerateRequestCacheId(endpointPath, payload) ==
    [path |-> endpointPath, hash |-> Md5(payload)]

\* const cacheId = this.generateRequestCacheId(requestUrl, options.body || "")
CacheIdOf(endpointPath, payload, method) ==
    LET body == OptionsBody(payload, method)
    IN  GenerateRequestCacheId(RequestUrl(endpointPath, payload, method),
                               IF body = <<>> THEN <<>> ELSE body[1])

\* setToken(token)
SetToken(t) ==
    /\ token' = t
    /\ UNCHANGED <<requestAverageLatency, requestLock, cache, calls, holder,
                   navigateLoginCalls, requests>>

\* doRequest(endpointPath, payload, method, 1, tokenArg) up to the cacheId:
\* the headers, the URL, the body and the fingerprint of invocation c.
BuildRequest(c, endpointPath, payload, method, tokenArg) ==
    /\ requests[c] = <<>>
    /\ IF c = 1 THEN TRUE ELSE requests[c - 1] # <<>>
    /\ requests' = [requests EXCEPT ![c] =
           <<[endpointPath |-> endpointPath, payload |-> payload, method |-> method,
              token |-> tokenArg,
              authorization |-> Authorization(AuthToken(token, tokenArg)),
              url |-> RequestUrl(endpointPath, payload, method),
              body |-> OptionsBody(payload, method),
              cacheId |-> CacheIdOf(endpointPath, payload, method)]>>]
    /\ UNCHANGED <<requestAverageLatency, requestLock, cache, calls, holder,
                   navigateLoginCalls, token>>

RequestNext ==
    \/ \E t \in HeldTokens : SetToken(t)
    \/ \E c \in RequestIds, endpointPath \in EndpointPaths, payload \in Payloads,
          method \in Methods, tokenArg \in TokenArguments :
           BuildRequest(c, endpointPath, payload, method, tokenArg)

RequestSpec == Init /\ [][RequestNext]_vars

\* ------------------------------------------ scenario: a backend of any speed

\* GET doRequest calls with one fingerprint, made at any time, and a backend
\* that answers every one of them 200 with a plain body after any latency
\* from 0 (fetch resolves within the millisecond it was issued in) to
\* MaxLatency.
AnyLatencyNext ==
    \/ \E c \in CallIds : DoRequest(c, "GET", "a")
    \/ \E c \in CallIds : FetchResolve(c)
    \/ \E c \in CallIds : ParseBody(c, 200, "data")
    \/ \E c \in CallIds : Poll(c)
    \/ Tick

AnyLatencySpec == Init /\ [][AnyLatencyNext]_vars

\* ------------------------------- scenario: a backend as slow as the poll

\* GET doRequest calls with one fingerprint, made at any time, and a backend
\* that answers every one of them 200 with a plain body after any latency
\* from Step to the poll interval of resolveFromCache.
SlowBackendNext ==
    \/ \E c \in CallIds : DoRequest(c, "GET", "a")
    \/ \E c \in CallIds : Answers(c) /\ FetchResolve(c)
    \/ \E c \in CallIds : ParseBody(c, 200, "data")
    \/ \E c \in CallIds : Poll(c)
    \/ TickWithin(PollInterval)

SlowBackendSpec == Init /\ [][SlowBackendNext]_vars

\* --------------------------------------------------------------- the claims

\* Calls whose network call for fingerprint k is in flight.
FetchesInFlight(k) == {c \in CallIds : InFlight(c) /\ calls[c].cacheId = k}

\* The lock of k is held and the call that acquired it is over.
HolderFailed(k) == requestLock[k] /\ holder[k] # 0 /\ ~InFlight(holder[k])

\* C1 as stated: at every instant at most one network call is in flight per
\* fingerprint, whatever the HTTP method of the calls.
C1_OneFetchPerFingerprint ==
    \A k \in CacheIds : Cardinality(FetchesInFlight(k)) <= 1

\* C2: when a GET d starts before an identical GET c has completed (d waits
\* behind c) and the backend answers successfully, d issues no network call
\* and both calls eventually resolve, to the same value.
C2_DedupResolvesBoth ==
    \A c, d \in CallIds :
        (calls[d].pc = "waiting" /\ calls[d].behind = c) ~>
            (/\ calls[c].pc = "resolved" /\ calls[d].pc = "resolved"
             /\ calls[c].result = calls[d].result
             /\ ~calls[d].fetched)

\* C3: when a call that acquired the lock of its fingerprint has resolved or
\* rejected, that lock is free.
C3_LockReleasedOnExit ==
    \A c \in CallIds :
        Settled(c) /\ calls[c].locked => ~requestLock[calls[c].cacheId]

\* C4: a GET started after the lock holder's network call for its fingerprint
\* threw issues a network call of its own.
C4_NewCallAfterThrow ==
    [][\A c \in CallIds :
          (/\ calls[c].pc = "idle" /\ calls'[c].pc # "idle"
           /\ calls'[c].method = "GET"
           /\ HolderFailed(calls'[c].cacheId))
          => calls'[c].pc = "fetching"]_vars

\* C5: a caller waiting on a fingerprint whose lock holder has failed
\* eventually completes.
C5_WaiterCompletes ==
    \A c \in CallIds :
        (calls[c].pc = "waiting" /\ HolderFailed(calls[c].cacheId))
            ~> (calls[c].pc # "waiting")

\* C6: doRequest never resolves with a value that carries an error field: a
\* call whose outcome is a failure rejects.
C6_FailuresReject ==
    \A c \in CallIds : calls[c].pc = "resolved" => ~HasError(calls[c].result)

\* C7: the cache holds only responses of successful GET requests, never a
\* backend error.
C7_CacheOnlySuccess ==
    \A k \in CacheIds : cache[k].present => ~HasError(cache[k].value)

\* C8: a call the backend answers with an error of code 13 rejects with an
\* error whose code is 13 and has invoked navigateLogin exactly once.
C8_SessionExpiredOnce ==
    \A c \in CallIds :
        Settled(c) /\ calls[c].body = "error13" =>
            /\ calls[c].pc = "rejected"
            /\ calls[c].result.code = <<SessionExpiredCode>>
            /\ navigateLoginCalls[c] = 1

\* C8 witness: a non-2xx answer {error: {code: 13}} has been handled.
C8_Witness ==
    \E c \in CallIds :
        Settled(c) /\ calls[c].body = "error13" /\ ~calls[c].ok

\* C9: navigateLogin is invoked only by a call that rejects with code 13; a
\* call that fails with another code or with none invokes nothing and rejects
\* with the error as it was given: the backend's error object, the body of a
\* non-2xx answer without one, or the message of the exception.
C9_OnlyCode13Navigates ==
    \A c \in CallIds :
        /\ navigateLoginCalls[c] > 0 =>
               calls[c].pc = "rejected" /\ calls[c].result.code = <<SessionExpiredCode>>
        /\ calls[c].pc = "rejected" /\ calls[c].body # "error13" =>
               /\ navigateLoginCalls[c] = 0
               /\ calls[c].result =
                      CASE calls[c].body = "errorOther" ->
                               JsObject(<<SessionExpiredCode + 1>>, <<>>, c)
                        [] calls[c].body = "data" -> JsObject(<<>>, <<>>, c)
                        [] OTHER -> JsString(c)

\* C9 witness: a call has rejected with a backend error of another code.
C9_Witness ==
    \E c \in CallIds :
        /\ calls[c].pc = "rejected" /\ calls[c].body = "errorOther"
        /\ navigateLoginCalls[c] = 0

\* C10: a caller that waited because the lock was held resolves with the
\* response of the network call of the holder it waited behind.
C10_WaiterGetsHolderResult ==
    \A c \in CallIds :
        calls[c].pc = "resolved" /\ calls[c].behind # 0 =>
            calls[c].result.tag = calls[c].behind

\* Calls whose fetch has resolved (LatencySpec: the observations made so far).
Observed == {c \in CallIds : calls[c].recorded}

\* C11: after the first completed call for a fingerprint, with latency L1,
\* getRequestAverageLatency returns L1; after the second, with latency L2, it
\* returns (L1 + L2) / 2 + 500, for all non-negative L1 and L2.
C11_FirstTwoObservations ==
    /\ Observed = {1} =>
           GetRequestAverageLatency(requestAverageLatency, "a") = Units(calls[1].elapsed)
    /\ Observed = {1, 2} =>
           GetRequestAverageLatency(requestAverageLatency, "a") =
               (Units(calls[1].elapsed) + Units(calls[2].elapsed)) \div 2 + Units(Tolerance)

\* C12: getRequestAverageLatency returns the default 5000 ms exactly when no
\* latency has been recorded for the fingerprint, and the recorded running
\* average once one has.
C12_DefaultIffNoRecord ==
    \A k \in CacheIds :
        IF requestAverageLatency[k] = <<>>
        THEN GetRequestAverageLatency(requestAverageLatency, k) = Units(DefaultLatency)
        ELSE /\ GetRequestAverageLatency(requestAverageLatency, k) = requestAverageLatency[k][1]
             /\ GetRequestAverageLatency(requestAverageLatency, k) # Units(DefaultLatency)

\* C13: a GET doRequest that finds a fresh cache entry for its fingerprint
\* resolves with that entry, issues no network call and leaves the latency
\* table and the lock table as they were.
C13_CacheHitFrame ==
    [][\A c \in CallIds :
          (/\ calls[c].pc = "idle" /\ calls'[c].pc # "idle"
           /\ calls'[c].method = "GET"
           /\ cache[calls'[c].cacheId].present)
          => /\ calls'[c].pc = "resolved"
             /\ calls'[c].result = cache[calls'[c].cacheId].value
             /\ ~calls'[c].fetched
             /\ requestAverageLatency' = requestAverageLatency
             /\ requestLock' = requestLock]_vars

\* C13 witness: a GET has resolved from an entry with time left, without a
\* network call and without waiting.
C13_Witness ==
    \E c \in CallIds :
        /\ calls[c].method = "GET" /\ calls[c].pc = "resolved"
        /\ ~calls[c].fetched /\ calls[c].behind = 0
        /\ cache[calls[c].cacheId].ttl > 0

\* C14: a cache entry loses Step of its TTL with every Step that passes and
\* changes in no other way until a response is stored over it; a GET
\* doRequest made while it has time left, or at the instant its TTL is used
\* up, resolves with it; once more time than its TTL has passed it is gone
\* and a GET doRequest does not resolve from it.
C14_ServedUntilTtl ==
    [][/\ \A c \in CallIds :
             (calls[c].pc = "idle" /\ calls'[c].pc # "idle" /\ calls'[c].method = "GET")
             => LET entry == cache[calls'[c].cacheId]
                IN  IF entry.present /\ entry.ttl >= 0
                    THEN calls'[c].pc = "resolved" /\ calls'[c].result = entry.value
                    ELSE calls'[c].pc # "resolved"
       /\ \A k \in CacheIds :
             cache[k].present /\ cache'[k] # cache[k]
             => \/ \E c \in CallIds : calls[c].pc = "parsing" /\ calls'[c].pc # "parsing"
                \/ IF cache[k].ttl >= Units(Step)
                   THEN cache'[k] = [cache[k] EXCEPT !.ttl = @ - Units(Step)]
                   ELSE ~cache'[k].present]_vars

\* C14 witness: a GET has resolved from an entry at the instant its TTL was
\* used up.
C14_Witness ==
    \E c \in CallIds :
        /\ calls[c].method = "GET" /\ calls[c].pc = "resolved"
        /\ ~calls[c].fetched /\ calls[c].behind = 0
        /\ cache[calls[c].cacheId].present /\ cache[calls[c].cacheId].ttl = 0

\* Two payloads with the same keys and values, in whatever insertion order.
SameContent(p, q) ==
    \/ p = <<>> /\ q = <<>>
    \/ /\ p # <<>> /\ q # <<>>
       /\ {p[1][i] : i \in 1..Len(p[1])} = {q[1][i] : i \in 1..Len(q[1])}

\* C15: two doRequest invocations with the same endpoint and method and
\* payloads of the same keys and values, in the same or another insertion
\* order, compute the same cacheId.
C15_CanonicalFingerprint ==
    \A c, d \in RequestIds :
        (/\ requests[c] # <<>> /\ requests[d] # <<>>
         /\ requests[c][1].endpointPath = requests[d][1].endpointPath
         /\ requests[c][1].method = requests[d][1].method
         /\ SameContent(requests[c][1].payload, requests[d][1].payload))
        => requests[c][1].cacheId = requests[d][1].cacheId

\* C18: the request a doRequest invocation builds carries the Authorization
\* header "Bearer <token>" exactly when a token is held by the client or was
\* passed to the invocation (the held one first); with neither, the request
\* is built all the same, without the header.
C18_BearerIffToken ==
    [][\A c \in RequestIds :
          requests[c] = <<>> /\ requests'[c] # <<>>
          => LET built == requests'[c][1]
             IN  CASE Truthy(token) ->
                          built.authorization = <<"Bearer ", token[1]>>
                   [] ~Truthy(token) /\ Truthy(built.token) ->
                          built.authorization = <<"Bearer ", built.token[1]>>
                   [] OTHER ->
                          built.authorization = <<>> /\ built.url # <<>>]_vars

\* C18 witness: one request was built with no token held or passed and has
\* no Authorization header, another carries the token passed to it.
C18_Witness ==
    \E c, d \in RequestIds :
        /\ requests[c] # <<>> /\ requests[d] # <<>>
        /\ requests[c][1].token = <<>> /\ requests[c][1].authorization = <<>>
        /\ requests[d][1].authorization = <<"Bearer ", "t2">>

\* C16: when two GET calls for a fresh fingerprint have been deduplicated
\* into one network call (d waited behind c, no other call was made) and
\* both have resolved, getRequestAverageLatency for the fingerprint is L
\* plus the tolerance, for a latency L the backend can have answered with.
C16_AverageAfterDedup ==
    \A c, d \in CallIds :
        (/\ calls[c].pc = "resolved" /\ calls[c].fetched
         /\ calls[d].pc = "resolved" /\ ~calls[d].fetched /\ calls[d].behind = c
         /\ \A e \in CallIds \ {c, d} : calls[e].pc = "idle")
        => \E n \in 1..MaxLatencySteps :
               GetRequestAverageLatency(requestAverageLatency, calls[c].cacheId)
                   = Units(n * Step + Tolerance)

\* C17: a doRequest invocation issues fetch at most once, in its first
\* segment and never again; when the fetch fails in transport the invocation
\* does not go back to fetching but rejects, with the message of the failure.
C17_NoRetry ==
    [][\A c \in CallIds :
          /\ (calls[c].pc # "fetching" /\ calls'[c].pc = "fetching")
             => calls[c].pc = "idle" /\ ~calls[c].fetched
          /\ (calls[c].pc = "fetching" /\ calls'[c].pc \notin {"fetching", "parsing"})
             => calls'[c].pc = "rejected" /\ calls'[c].result = JsString(c)]_vars

\* C17 witness: a call whose fetch failed in transport has rejected.
C17_Witness ==
    \E c \in CallIds :
        calls[c].pc = "rejected" /\ calls[c].body = "throws" /\ calls[c].fetched

\* C19: a call that ended in a response other than 200/201, in a body that
\* does not parse or in a transport failure has not written the latency
\* table.
C19_LatencyOnlyOnSuccess ==
    \A c \in CallIds :
        (/\ Settled(c) /\ calls[c].fetched
         /\ \/ ~calls[c].ok
            \/ calls[c].body \in {"unparseable", "throws"})
        => ~calls[c].recorded

\* C20: a GET that stores its response gives the cache the value of
\* getRequestAverageLatency at that moment as TTL, and once the call's
\* measured latency L has been recorded that value is L on a first
\* observation of the fingerprint and (average + L) / 2 + 500 on a later one.
C20_TtlIsRecordedAverage ==
    [][\A c \in CallIds :
          LET k == calls[c].cacheId IN
          /\ (calls[c].pc = "fetching" /\ calls'[c].pc = "parsing")
             => GetRequestAverageLatency(requestAverageLatency', k) =
                    IF requestAverageLatency[k] = <<>>
                    THEN Units(calls[c].elapsed)
                    ELSE (requestAverageLatency[k][1] + Units(calls[c].elapsed)) \div 2
                         + Units(Tolerance)
          /\ (calls[c].pc = "parsing" /\ calls'[c].pc = "resolved"
                  /\ calls[c].method = "GET")
             => /\ cache'[k].present
                /\ cache'[k].ttl = GetRequestAverageLatency(requestAverageLatency', k)]_vars

\* C21: a GET doRequest that starts while the lock of its fingerprint is held
\* does not acquire it and issues no fetch, and the lock stays held; one that
\* acquires the lock found it free and the cache without an entry, in the same
\* step, and is then the only holder; a held lock becomes free only when its
\* holder releases it.
C21_LockExclusive ==
    [][/\ \A c \in CallIds :
             (calls[c].pc = "idle" /\ calls'[c].pc # "idle" /\ calls'[c].method = "GET")
             => LET k == calls'[c].cacheId
                IN  /\ requestLock[k]
                       => /\ ~calls'[c].locked /\ calls'[c].pc # "fetching"
                          /\ requestLock'[k] /\ holder'[k] = holder[k]
                    /\ calls'[c].locked
                       => /\ ~requestLock[k] /\ ~cache[k].present
                          /\ requestLock'[k] /\ holder'[k] = c
                          /\ \A d \in CallIds \ {c} :
                                 ~(calls'[d].locked /\ InFlight(d) /\ calls'[d].cacheId = k)
       /\ \A k \in CacheIds :
             requestLock[k] /\ ~requestLock'[k]
             => holder[k] # 0 /\ calls[holder[k]].pc = "parsing"]_vars

\* C21 witness: while the holder of the lock reads its response body, a
\* second GET for the fingerprint has been refused the lock and waits.
C21_Witness ==
    \E c, d \in CallIds :
        /\ calls[c].pc = "parsing" /\ calls[c].locked
        /\ requestLock[calls[c].cacheId] /\ holder[calls[c].cacheId] = c
        /\ calls[d].pc = "waiting" /\ calls[d].behind = c

\* C22: in every step in which the lock of a fingerprint goes from held to
\* free, its holder writes its response to the cache under that fingerprint,
\* so that the cache holds a fresh entry when the lock is free.
C22_WriteBeforeRelease ==
    [][\A k \in CacheIds :
          requestLock[k] /\ ~requestLock'[k]
          => /\ cache'[k].present /\ cache'[k].ttl > 0
             /\ CacheGet(cache', k) # <<>>
             /\ cache'[k] # cache[k]
             /\ holder[k] # 0 /\ cache'[k].value.tag = holder[k]]_vars

\* C22 witness: a holder has settled, the lock of its fingerprint is free and
\* the cache holds the response it stored.
C22_Witness ==
    \E c \in CallIds :
        /\ Settled(c) /\ calls[c].locked
        /\ ~requestLock[calls[c].cacheId]
        /\ cache[calls[c].cacheId].present
        /\ cache[calls[c].cacheId].value.tag = c

\* C23: a GET doRequest that did not get the lock issues no fetch and never
\* rejects; it leaves waiting only at a due poll that finds a cached response,
\* resolving with that response; a due poll that finds nothing schedules the
\* next one 100 ms later, whatever the time already waited; its polls change
\* neither the lock table nor the latency table nor the cache.
C23_WaiterOnlyResolves ==
    [][\A c \in CallIds :
          calls[c].pc = "waiting"
          => LET hit == CacheGet(cache, calls[c].cacheId)
             IN  /\ calls'[c].pc \in {"waiting", "resolved"}
                 /\ ~calls'[c].fetched /\ ~calls'[c].locked /\ ~calls'[c].recorded
                 /\ calls'[c].pc = "resolved"
                    => /\ calls[c].pollIn <= 0 /\ hit # <<>>
                       /\ calls'[c].result = hit[1]
                 /\ (calls'[c] # calls[c] /\ calls'[c].pollIn >= calls[c].pollIn)
                    => /\ calls[c].pollIn <= 0
                       /\ requestLock' = requestLock
                       /\ requestAverageLatency' = requestAverageLatency
                       /\ cache' = cache
                       /\ hit = <<>>
                          => calls'[c] = [calls[c] EXCEPT !.pollIn = PollInterval]]_vars

\* C23 witness: a call that waited behind a holder has resolved without a
\* fetch of its own.
C23_Witness ==
    \E c \in CallIds :
        /\ calls[c].pc = "resolved" /\ calls[c].behind # 0
        /\ ~calls[c].fetched /\ calls[c].result.tag # 0

\* C24: a GET call starts its fetch only in a step that found no fresh cache
\* entry for its fingerprint and the lock of the fingerprint free; and while
\* the response stored by a fetch is fresh (its time-to-live has not run out)
\* no fetch of a GET call on that fingerprint is in flight, so that the next
\* fetch starts later than the time-to-live after the stored response.
C24_FetchOnlyOnMissAndFree ==
    /\ [](\A c \in CallIds :
              (calls[c].method = "GET" /\ calls[c].pc \in {"fetching", "parsing"})
              => /\ CacheGet(cache, calls[c].cacheId) = <<>>
                 /\ requestLock[calls[c].cacheId] /\ holder[calls[c].cacheId] = c)
    /\ [][\A c \in CallIds :
              (calls[c].pc # "fetching" /\ calls'[c].pc = "fetching"
                  /\ calls'[c].method = "GET")
              => /\ calls[c].pc = "idle"
                 /\ CacheGet(cache, calls'[c].cacheId) = <<>>
                 /\ ~requestLock[calls'[c].cacheId]]_vars

\* C24 witness: a GET call fetches on a fingerprint on which an earlier GET
\* call, behind which another call still waits, stored its response and
\* released the lock, after that response has expired.
C24_Witness ==
    \E c, d, e \in CallIds :
        /\ calls[c].pc = "done"
        /\ calls[d].pc = "waiting" /\ calls[d].behind = c
        /\ calls[e].pc = "fetching" /\ calls[e].locked
        /\ calls[e].cacheId = calls[d].cacheId
        /\ ~cache[calls[e].cacheId].present

\* C25: a doRequest with a method other than GET always issues its own fetch,
\* whatever the cache and the lock table hold, is never made to wait and never
\* holds a lock; none of its steps changes the cache or the lock table, and
\* its start changes no table at all.
C25_NonGetFrame ==
    [][\A c \in CallIds :
          /\ (calls[c].pc = "idle" /\ calls'[c].pc # "idle" /\ calls'[c].method # "GET")
             => /\ calls'[c].pc = "fetching" /\ calls'[c].fetched /\ ~calls'[c].locked
                /\ cache' = cache /\ requestLock' = requestLock /\ holder' = holder
                /\ requestAverageLatency' = requestAverageLatency
          /\ (calls[c].method # "GET" /\ InFlight(c) /\ calls'[c].pc # calls[c].pc)
             => /\ cache' = cache /\ requestLock' = requestLock /\ holder' = holder
                /\ calls'[c].pc \in {"parsing", "resolved", "rejected"}
                /\ ~calls'[c].locked]_vars

\* C25 witness: a call with another method has just issued its fetch although
\* the cache holds a fresh entry for its fingerprint.
C25_Witness ==
    \E c \in CallIds :
        /\ calls[c].method # "GET" /\ calls[c].pc = "fetching" /\ calls[c].elapsed = 0
        /\ cache[calls[c].cacheId].present

\* C26: when a GET call that holds the lock has rejected on a response whose
\* status is neither 200 nor 201 and whose body parsed, the lock of its
\* fingerprint is free.
C26_ErrorStatusReleases ==
    \A c \in CallIds :
        (/\ Settled(c) /\ calls[c].locked /\ ~calls[c].ok
         /\ calls[c].body \in {"data", "error13", "errorOther"})
        => /\ calls[c].pc = "rejected"
           /\ ~requestLock[calls[c].cacheId]
           /\ holder[calls[c].cacheId] = 0

\* C26 witness: a lock holder has rejected on such a response.
C26_Witness ==
    \E c \in CallIds :
        /\ calls[c].pc = "rejected" /\ calls[c].locked /\ ~calls[c].ok
        /\ calls[c].body = "data"
        /\ ~requestLock[calls[c].cacheId]

\* C27: while a call waits on a fingerprint for which the cache holds a
\* successful response stored with a time-to-live of at least the poll
\* interval, the next poll of the call is due within the poll interval and
\* no later than the expiry of the response; that poll resolves the call with
\* the stored response; and the response does not expire while the call is
\* still waiting.
C27_WaitersResolveWithinPoll ==
    /\ [](\A d \in CallIds :
              LET k == calls[d].cacheId
              IN  (/\ calls[d].pc = "waiting"
                   /\ cache[k].present /\ cache[k].long /\ ~HasError(cache[k].value))
                  => /\ calls[d].pollIn <= PollInterval
                     /\ cache[k].ttl >= Units(calls[d].pollIn))
    /\ [][\A d \in CallIds :
              LET k == calls[d].cacheId
              IN  (/\ calls[d].pc = "waiting"
                   /\ cache[k].present /\ cache[k].long /\ ~HasError(cache[k].value))
                  => /\ (calls'[d] # calls[d] /\ calls'[d].pollIn >= calls[d].pollIn)
                        => /\ calls'[d].pc = "resolved"
                           /\ calls'[d].result = cache[k].value
                     /\ ~cache'[k].present => calls'[d].pc # "waiting"]_vars

\* C28: every response put in the cache is stored with a time-to-live above
\* zero: the recorded average when that is above zero, and the default of
\* 5000 ms when the recorded latency is 0.
C28_TtlPositive ==
    [][\A c \in CallIds :
          LET k == calls[c].cacheId
          IN  (calls[c].pc = "parsing" /\ calls'[c].pc # "parsing" /\ cache'[k] # cache[k])
              => /\ cache'[k].present /\ cache'[k].ttl > 0
                 /\ requestAverageLatency[k] # <<>>
                 /\ cache'[k].ttl = IF requestAverageLatency[k][1] = 0
                                    THEN Units(DefaultLatency)
                                    ELSE requestAverageLatency[k][1]]_vars

\* C28 witness: a response is in the cache, stored with the default
\* time-to-live while the latency recorded for its fingerprint is 0.
C28_Witness ==
    \E c \in CallIds :
        /\ Settled(c) /\ calls[c].locked /\ calls[c].recorded
        /\ requestAverageLatency[calls[c].cacheId] = <<0>>
        /\ cache[calls[c].cacheId].present
        /\ cache[calls[c].cacheId].ttl = Units(DefaultLatency)

\* C29: with every observed latency between 0 and MaxLatency, the stored
\* running average is at most MaxLatency + 1000 ms after any number of
\* observations and at least 500 ms from the second observation on.
C29_AverageBounds ==
    \A k \in CacheIds :
        requestAverageLatency[k] # <<>>
        => /\ requestAverageLatency[k][1] <= Units(MaxLatency + 2 * Tolerance)
           /\ Cardinality(Observed) >= 2
              => requestAverageLatency[k][1] >= Units(Tolerance)

\* C30: a request built while the client holds a token, by an invocation
\* that was passed a different token, carries the held token as its bearer
\* credential and not the passed one; a request carries the passed token only
\* when the client holds none.
C30_HeldTokenFirst ==
    [][\A c \in RequestIds :
          requests[c] = <<>> /\ requests'[c] # <<>>
          => LET built == requests'[c][1]
             IN  /\ (Truthy(token) /\ Truthy(built.token) /\ built.token # token)
                    => /\ built.authorization = <<"Bearer ", token[1]>>
                       /\ built.authorization # <<"Bearer ", built.token[1]>>
                 /\ (Truthy(built.token) /\ built.token # token
                        /\ built.authorization = <<"Bearer ", built.token[1]>>)
                    => ~Truthy(token)]_vars

\* C30 witness: one request was passed the token t2 and carries the held
\* token t1, another was passed t2 and carries it.
C30_Witness ==
    \E c, d \in RequestIds :
        /\ requests[c] # <<>> /\ requests[d] # <<>>
        /\ requests[c][1].token = <<"t2">>
        /\ requests[c][1].authorization = <<"Bearer ", "t1">>
        /\ requests[d][1].token = <<"t2">>
        /\ requests[d][1].authorization = <<"Bearer ", "t2">>

====
